---- MODULE Spec2Model ----
(***************************************************************************)
(* Model of dadi's Spectrum transforms (src/dadi/Spectrum_mod.py) and of   *)
(* the objective function of the optimizer (src/dadi/Inference.py).        *)
(*                                                                         *)
(* A spectrum is a record [shape, data, den, mask]: shape is the tuple of  *)
(* axis extents, data maps every index tuple to an integer numerator, den  *)
(* is the common denominator of all cells (the value of a cell is          *)
(* data[c]/den, so the halves of fold and the hypergeometric weights of    *)
(* project are exact), and mask maps every index tuple to a boolean.       *)
(* Python axes are numbered from 0; tuples here are indexed from 1.        *)
(***************************************************************************)
EXTENDS Integers, Sequences, FiniteSets, TLC

VARIABLES build, fs, call, out, config, counter, last, ret, printed,
          runs, default_flush_delay

vars == <<build, fs, call, out, config, counter, last, ret, printed,
          runs, default_flush_delay>>

(***************************************************************************)
(* Bounds of the model.                                                    *)
(***************************************************************************)
MaxN == 3
MaxPop == 2
MaxCells == 6
MaxVal == 1
MaxParam == 3
MaxVerbose == 2
MaxEvals == 3
MaxRuns == 2
MaxLog == 2
MaxFlushDelay == 1

(***************************************************************************)
(* numpy.ma leaves the data under a masked cell unspecified, and releases  *)
(* differ: "raw" computes a binary operation and an in-place addition on   *)
(* the raw data of every cell; "guarded" keeps the first operand's data    *)
(* under the mask of a binary operation and adds nothing in place to a     *)
(* cell that is masked. The mask of the result is the same in both.        *)
(***************************************************************************)
Builds == {"raw", "guarded"}

(***************************************************************************)
(* Arithmetic helpers.                                                     *)
(***************************************************************************)
RECURSIVE SumSet(_, _)
SumSet(S, f) ==
    IF S = {} THEN 0
    ELSE LET x == CHOOSE y \in S : TRUE IN f[x] + SumSet(S \ {x}, f)

RECURSIVE SumSeq(_)
SumSeq(s) == IF s = <<>> THEN 0 ELSE Head(s) + SumSeq(Tail(s))

RECURSIVE ProdSeq(_)
ProdSeq(s) == IF s = <<>> THEN 1 ELSE Head(s) * ProdSeq(Tail(s))

Min(a, b) == IF a <= b THEN a ELSE b

Max(a, b) == IF a >= b THEN a ELSE b

RECURSIVE SeqMax(_)
SeqMax(s) == IF s = <<>> THEN 0 ELSE Max(Head(s), SeqMax(Tail(s)))

RECURSIVE Binomial(_, _)
Binomial(n, k) ==
    IF k < 0 \/ k > n THEN 0
    ELSE IF k = 0 THEN 1
    ELSE (Binomial(n - 1, k - 1) * n) \div k

(***************************************************************************)
(* Index tuples of an array of the given shape.                            *)
(***************************************************************************)
Cells(shape) ==
    {c \in [1..Len(shape) -> 0..(SeqMax(shape) - 1)] :
        \A i \in 1..Len(shape) : c[i] < shape[i]}

FirstCell(shape) == [i \in 1..Len(shape) |-> 0]

LastCell(shape) == [i \in 1..Len(shape) |-> shape[i] - 1]

(***************************************************************************)
(* Spectrum.__init__ and the properties of a Spectrum.                     *)
(***************************************************************************)
make_mask_none(shape) == [c \in Cells(shape) |-> FALSE]

mask_corners(s) ==
    [s EXCEPT !.mask = [c \in Cells(s.shape) |->
        IF c = FirstCell(s.shape) \/ c = LastCell(s.shape) THEN TRUE
        ELSE s.mask[c]]]

Spectrum(shape, data, mask, corners) ==
    LET s == [shape |-> shape, data |-> data, den |-> 1, mask |-> mask]
    IN IF corners THEN mask_corners(s) ELSE s

sample_sizes(s) == [i \in 1..Len(s.shape) |-> s.shape[i] - 1]

Npop(s) == Len(s.shape)

(***************************************************************************)
(* What a caller can observe of a spectrum.                                *)
(***************************************************************************)
Unmasked(s) == {c \in Cells(s.shape) : ~s.mask[c]}

SumUnmasked(s) == SumSet(Unmasked(s), s.data)

SumAll(s) == SumSet(Cells(s.shape), s.data)

(***************************************************************************)
(* Spectrum.fold                                                           *)
(***************************************************************************)
total_per_cell(c) == SumSeq(c)

Mirror(shape, c) == [i \in 1..Len(shape) |-> shape[i] - 1 - c[i]]

reverse_array(shape, a) == [c \in Cells(shape) |-> a[Mirror(shape, c)]]

FoldHalf(s) == SumSeq(sample_sizes(s)) \div 2

fold(s, b) ==
    LET cells == Cells(s.shape)
        half == FoldHalf(s)
        where_folded_out == [c \in cells |-> total_per_cell(c) > half]
        original_mask == s.mask
        mirror_mask == reverse_array(s.shape, original_mask)
        reversed == reverse_array(s.shape,
                        [c \in cells |-> IF where_folded_out[c] THEN s.data[c] ELSE 0])
        \* folded = self + reversed: the mask is self's; under it the data is
        \* the sum ("raw") or self's data ("guarded").
        folded == [c \in cells |->
                     IF original_mask[c] /\ b = "guarded" THEN s.data[c]
                     ELSE s.data[c] + reversed[c]]
        where_ambiguous == [c \in cells |-> total_per_cell(c) = half]
        ambiguous == [c \in cells |-> IF where_ambiguous[c] THEN s.data[c] ELSE 0]
        rev_ambiguous == reverse_array(s.shape, ambiguous)
        \* folded += -0.5*ambiguous + 0.5*reverse_array(ambiguous), in halves
        folded2 == [c \in cells |->
                     IF original_mask[c] /\ b = "guarded" THEN 2 * folded[c]
                     ELSE 2 * folded[c] - ambiguous[c] + rev_ambiguous[c]]
        final_mask == [c \in cells |->
                     original_mask[c] \/ mirror_mask[c] \/ where_folded_out[c]]
    IN [shape |-> s.shape, data |-> folded2, den |-> 2 * s.den, mask |-> final_mask]

(***************************************************************************)
(* Inputs of the fold specification.                                       *)
(***************************************************************************)
Shapes ==
    {sh \in UNION {[1..k -> 2..(MaxN + 1)] : k \in 1..MaxPop} :
        ProdSeq(sh) <= MaxCells}

NoSpectrum == [shape |-> <<>>]

NoResult == [kind |-> "none"]

NoCall == [op |-> "none"]

NoConfig == [set |-> FALSE]

NoRuns == <<>>

ObjIdle ==
    /\ runs = NoRuns
    /\ default_flush_delay = 0
    /\ config = NoConfig
    /\ counter = 0
    /\ last = [called |-> FALSE]
    /\ ret = [kind |-> "none"]
    /\ printed = <<>>

FsIdle == UNCHANGED <<config, counter, last, ret, printed, runs, default_flush_delay>>

InitFold ==
    /\ build \in Builds
    /\ \E sh \in Shapes : \E corners \in BOOLEAN :
         \E data \in [Cells(sh) -> 0..MaxVal] :
           fs = Spectrum(sh, data, make_mask_none(sh), corners)
    /\ call = NoCall
    /\ out = NoResult
    /\ ObjIdle

\* s.fold() on the constructed spectrum
Fold ==
    /\ call.op = "none"
    /\ call' = [op |-> "fold", arg |-> fs]
    /\ out' = [kind |-> "ok", val |-> fold(fs, build)]
    /\ UNCHANGED <<build, fs>>
    /\ FsIdle

\* .fold() on the spectrum the first fold returned
FoldAgain ==
    /\ call.op = "fold"
    /\ call' = [op |-> "fold.fold", arg |-> out.val]
    /\ out' = [kind |-> "ok", val |-> fold(out.val, build)]
    /\ UNCHANGED <<build, fs>>
    /\ FsIdle

NextFold == Fold \/ FoldAgain

SpecFold == InitFold /\ [][NextFold]_vars

\* Equality of the values of two cells held over different denominators.
SameValue(s, c, t, d) == s.data[c] * t.den = t.data[d] * s.den

OddTotal(s) == SumSeq(sample_sizes(s)) % 2 = 1

\* C4: folding a spectrum with no masked cell and an odd total sample size
\* (no index on the midpoint) keeps the total mass: the unmasked cells of
\* fold(s) sum to the sum of all cells of s.
C4_FoldPreservesMass ==
    (call.op = "fold" /\ Unmasked(call.arg) = Cells(call.arg.shape)
                      /\ OddTotal(call.arg))
    => SumUnmasked(out.val) * call.arg.den = SumAll(call.arg) * out.val.den

\* C5: folding is idempotent on a folded spectrum: with an odd total sample
\* size, fold(fold(s)) has the mask of fold(s) and its value in every
\* unmasked cell.
C5_FoldIdempotent ==
    (call.op = "fold.fold" /\ OddTotal(call.arg))
    => /\ out.val.mask = call.arg.mask
       /\ \A c \in Unmasked(call.arg) : SameValue(out.val, c, call.arg, c)

(***************************************************************************)
(* Spectrum.project and Spectrum._project_one_axis                         *)
(***************************************************************************)
Ok(s) == [kind |-> "ok", val |-> s]

Raise(e) == [kind |-> "raise", exc |-> e]

\* The hypergeometric weights w(j | hits), j in 0..n, as numerators over
\* the denominator Binomial(proj_from, n).
cached_projection(n, proj_from, hits) ==
    [j \in 0..n |-> Binomial(hits, j) * Binomial(proj_from - hits, n - j)]

ProjLeastZero(n, proj_from, hits) == 0

ProjLeast(n, proj_from, hits) == Max(n - (proj_from - hits), 0)

ProjMostExclusive(n, hits) == Min(hits, n) - 1

ProjMost(n, hits) == Min(hits, n)

\* The accumulation with the mask of the source dropped.
ProjAccumulateUnmasked(pfs, s, n, axis, hits, b) ==
    LET proj_from == sample_sizes(s)[axis + 1]
        least == Max(n - (proj_from - hits), 0)
        most == Min(hits, n)
        proj == cached_projection(n, proj_from, hits)
    IN [pfs EXCEPT !.data = [c \in Cells(pfs.shape) |->
            IF least <= c[axis + 1] /\ c[axis + 1] <= most
            THEN pfs.data[c] + proj[c[axis + 1]] * s.data[[c EXCEPT ![axis + 1] = hits]]
            ELSE pfs.data[c]]]

\* One pass of the loop over hits:
\*   pfs[to_slice] += proj[proj_slice] * self[from_slice]
\* which the source spells out as data[to] += self.data[from] * proj and
\* mask[to] = mask[to] or self.mask[from]. Under a mask the "guarded"
\* build adds nothing.
ProjAccumulate(pfs, s, n, axis, hits, b) ==
    LET proj_from == sample_sizes(s)[axis + 1]
        least == ProjLeast(n, proj_from, hits)
        most == ProjMost(n, hits)
        proj == cached_projection(n, proj_from, hits)
        cells == Cells(pfs.shape)
        inslice == [c \in cells |-> least <= c[axis + 1] /\ c[axis + 1] <= most]
        from == [c \in cells |-> [c EXCEPT ![axis + 1] = hits]]
        newmask == [c \in cells |->
                      IF inslice[c] THEN pfs.mask[c] \/ s.mask[from[c]]
                      ELSE pfs.mask[c]]
        newdata == [c \in cells |->
                      IF inslice[c] /\ ~(b = "guarded" /\ newmask[c])
                      THEN pfs.data[c] + proj[c[axis + 1]] * s.data[from[c]]
                      ELSE pfs.data[c]]
    IN [pfs EXCEPT !.data = newdata, !.mask = newmask]

RECURSIVE ProjLoop(_, _, _, _, _, _)
ProjLoop(pfs, s, n, axis, hits, b) ==
    IF hits > sample_sizes(s)[axis + 1] THEN pfs
    ELSE ProjLoop(ProjAccumulate(pfs, s, n, axis, hits, b), s, n, axis, hits + 1, b)

project_one_axis(s, n, axis, b) ==
    IF n > sample_sizes(s)[axis + 1] THEN Raise("ValueError")
    ELSE LET newshape == [s.shape EXCEPT ![axis + 1] = n + 1]
             zeros == [c \in Cells(newshape) |-> 0]
             pfs == [Spectrum(newshape, zeros, make_mask_none(newshape), FALSE)
                        EXCEPT !.den = s.den * Binomial(sample_sizes(s)[axis + 1], n)]
         IN Ok(ProjLoop(pfs, s, n, axis, 0, b))

RECURSIVE ProjectAxes(_, _, _, _, _)
ProjectAxes(output, s, ns, axis, b) ==
    IF axis >= Len(ns) THEN output
    ELSE IF ns[axis + 1] # sample_sizes(s)[axis + 1]
         THEN ProjectAxes(project_one_axis(output, ns[axis + 1], axis, b).val,
                          s, ns, axis + 1, b)
         ELSE ProjectAxes(output, s, ns, axis + 1, b)

ProjectTooBigOrEqual(s, ns) == \E i \in 1..Len(ns) : ns[i] >= sample_sizes(s)[i]

ProjectTooBig(s, ns) == \E i \in 1..Len(ns) : ns[i] > sample_sizes(s)[i]

project(s, ns, b) ==
    IF Len(ns) # Npop(s) THEN Raise("ValueError")
    ELSE IF ProjectTooBig(s, ns) THEN Raise("ValueError")
    ELSE Ok(ProjectAxes(s, s, ns, 0, b))

(***************************************************************************)
(* Inputs of the projection specification: every mask over a fixed ramp of *)
(* data, every data over no mask or the corner mask, and the spectrum      *)
(* [0, 10, 0] of sample size 2 with its corners masked.                    *)
(***************************************************************************)
RECURSIVE RowMajor(_, _)
RowMajor(shape, c) ==
    IF shape = <<>> THEN 0
    ELSE LET k == Len(shape)
         IN c[k] + shape[k] * RowMajor(SubSeq(shape, 1, k - 1), SubSeq(c, 1, k - 1))

arange(shape) == [c \in Cells(shape) |-> RowMajor(shape, c)]

ScenarioData == (<<0>> :> 0) @@ (<<1>> :> 10) @@ (<<2>> :> 0)

ScenarioSpectrum == Spectrum(<<3>>, ScenarioData, make_mask_none(<<3>>), TRUE)

InputSpectra ==
    UNION {{Spectrum(sh, d, m, FALSE) : m \in [Cells(sh) -> BOOLEAN], d \in {arange(sh)}}
            \cup {Spectrum(sh, d, make_mask_none(sh), corners) :
                    d \in [Cells(sh) -> 0..MaxVal], corners \in BOOLEAN}
           : sh \in Shapes}

TargetSizes(s) ==
    UNION {[1..k -> 0..(SeqMax(s.shape))] :
             k \in {j \in 1..MaxPop : j >= Npop(s) - 1 /\ j <= Npop(s) + 1}}

InitProject ==
    /\ build \in Builds
    /\ fs \in InputSpectra \cup {ScenarioSpectrum}
    /\ call = NoCall
    /\ out = NoResult
    /\ ObjIdle

\* s.project(ns)
Project ==
    /\ call.op = "none"
    /\ \E ns \in TargetSizes(fs) :
         /\ call' = [op |-> "project", ns |-> ns, self |-> fs]
         /\ out' = project(fs, ns, build)
    /\ UNCHANGED <<build, fs>>
    /\ FsIdle

\* s._project_one_axis(n, axis)
ProjectOneAxis ==
    /\ call.op = "none"
    /\ \E axis \in 0..(Npop(fs) - 1) : \E n \in 0..SeqMax(fs.shape) :
         /\ call' = [op |-> "_project_one_axis", n |-> n, axis |-> axis]
         /\ out' = project_one_axis(fs, n, axis, build)
    /\ UNCHANGED <<build, fs>>
    /\ FsIdle

NextProject == Project \/ ProjectOneAxis

SpecProject == InitProject /\ [][NextProject]_vars

\* C6 as stated: projecting [0, 10, 0] (corners masked) to sample size 1
\* yields the spectrum [5, 5], both cells holding the value 5.
C6_ScenarioYieldsFiveFive ==
    (call.op = "project" /\ fs = ScenarioSpectrum /\ call.ns = <<1>>)
    => /\ out.kind = "ok"
       /\ out.val.shape = <<2>>
       /\ \A c \in Cells(<<2>>) :
            ~out.val.mask[c] /\ out.val.data[c] = 5 * out.val.den

\* C6 amended: projecting [0, 10, 0] (corners masked) to sample size 1
\* yields a spectrum of shape 2 whose two cells are both masked, each
\* receiving the weight-1 contribution of a masked corner; under the mask
\* the middle cell's mass is split 5/5: cell 1 holds 5, and cell 0 holds 5
\* or nothing, as the build adds under a mask or not.
C6_ScenarioYieldsMasked ==
    (call.op = "project" /\ fs = ScenarioSpectrum /\ call.ns = <<1>>)
    => /\ out.kind = "ok"
       /\ out.val.shape = <<2>>
       /\ \A c \in Cells(<<2>>) : out.val.mask[c]
       /\ out.val.data[<<1>>] = 5 * out.val.den
       /\ out.val.data[<<0>>] = (IF build = "raw" THEN 5 ELSE 0) * out.val.den

C6_Witness ==
    /\ call.op = "project" /\ fs = ScenarioSpectrum /\ call.ns = <<1>>
    /\ out.kind = "ok"

\* The source cells of the line through destination cell c that carry a
\* nonzero weight onto it: max(0, h-(n_from-n_to)) <= j <= min(h, n_to).
Contributors(s, n, axis, c) ==
    LET n_from == sample_sizes(s)[axis + 1]
        j == c[axis + 1]
    IN {[c EXCEPT ![axis + 1] = h] :
          h \in {x \in 0..n_from : Max(0, x - (n_from - n)) <= j /\ j <= Min(x, n)}}

\* C7: after projecting one axis, a destination cell is masked if and only
\* if one of the source cells with nonzero weight onto it is masked.
C7_MaskIffContributorMasked ==
    (call.op = "_project_one_axis" /\ out.kind = "ok")
    => \A c \in Cells(out.val.shape) :
         out.val.mask[c] <=> (\E d \in Contributors(fs, call.n, call.axis, c) : fs.mask[d])

C7_Witness ==
    /\ call.op = "_project_one_axis" /\ out.kind = "ok"
    /\ call.n < sample_sizes(fs)[call.axis + 1]
    /\ Npop(fs) = 2
    /\ \E c \in Cells(fs.shape) : fs.mask[c]
    /\ \E c \in Cells(out.val.shape) : out.val.mask[c]
    /\ \E c \in Cells(out.val.shape) : ~out.val.mask[c]

ValidTarget(s, ns) ==
    Len(ns) = Npop(s) /\ \A i \in 1..Len(ns) : ns[i] <= sample_sizes(s)[i]

\* C8: projecting a spectrum with no masked cell to sizes no larger than
\* its own keeps the sum of all cells, whichever axes are reduced.
C8_ProjectPreservesMass ==
    (call.op = "project" /\ Unmasked(fs) = Cells(fs.shape) /\ ValidTarget(fs, call.ns))
    => /\ out.kind = "ok"
       /\ SumAll(out.val) * fs.den = SumAll(fs) * out.val.den

C8_Witness ==
    /\ call.op = "project" /\ Unmasked(fs) = Cells(fs.shape)
    /\ Npop(fs) >= 2 /\ Len(call.ns) = Npop(fs)
    /\ \A i \in 1..Npop(fs) : call.ns[i] < sample_sizes(fs)[i]
    /\ out.kind = "ok"
    /\ SumAll(fs) > 1

\* C9: project raises ValueError, and yields no spectrum, when the number
\* of target sizes is not the number of populations or a target size
\* exceeds the sample size; with every target size equal to the sample
\* size it returns a spectrum equal to the input in data and mask. The
\* spectrum it was called on is as it was before the call.
C9_ProjectErrorsAndIdentity ==
    (call.op = "project")
    => /\ fs = call.self
       /\ (Len(call.ns) # Npop(fs)) => out = Raise("ValueError")
       /\ (Len(call.ns) = Npop(fs) /\ \E i \in 1..Npop(fs) : call.ns[i] > sample_sizes(fs)[i])
            => out = Raise("ValueError")
       /\ (call.ns = sample_sizes(fs)) => out = Ok(fs)

C9_Witness ==
    /\ call.op = "project" /\ Npop(fs) = 2 /\ Len(call.ns) = 2
    /\ call.ns[1] = sample_sizes(fs)[1]
    /\ call.ns[2] > sample_sizes(fs)[2]
    /\ out = Raise("ValueError")

(***************************************************************************)
(* Spectrum.marginalize                                                    *)
(***************************************************************************)
RemoveAt(seq, k) == [i \in 1..(Len(seq) - 1) |-> IF i < k THEN seq[i] ELSE seq[i + 1]]

\* The cells of s that are summed into cell c of s.sum(axis=axis).
AlongAxis(s, axis, c) == {d \in Cells(s.shape) : RemoveAt(d, axis + 1) = c}

\* The sum along an axis that masks a cell as soon as one summand is masked.
sum_axis_any(s, axis) ==
    LET newshape == RemoveAt(s.shape, axis + 1)
    IN [shape |-> newshape,
        data |-> [c \in Cells(newshape) |->
                    SumSet({d \in AlongAxis(s, axis, c) : ~s.mask[d]}, s.data)],
        den |-> s.den,
        mask |-> [c \in Cells(newshape) |-> \E d \in AlongAxis(s, axis, c) : s.mask[d]]]

\* MaskedArray.sum(axis): the masked cells count as 0 and a cell of the
\* result is masked when every summand is.
sum_axis(s, axis) ==
    LET newshape == RemoveAt(s.shape, axis + 1)
    IN [shape |-> newshape,
        data |-> [c \in Cells(newshape) |->
                    SumSet({d \in AlongAxis(s, axis, c) : ~s.mask[d]}, s.data)],
        den |-> s.den,
        mask |-> [c \in Cells(newshape) |-> \A d \in AlongAxis(s, axis, c) : s.mask[d]]]

\* sorted(over)[::-1]
RECURSIVE SortedReversed(_)
SortedReversed(over) ==
    IF over = <<>> THEN <<>>
    ELSE LET m == SeqMax(over)
             k == CHOOSE i \in 1..Len(over) : over[i] = m
         IN <<m>> \o SortedReversed(RemoveAt(over, k))

RECURSIVE SumAxes(_, _)
SumAxes(output, axes) ==
    IF axes = <<>> THEN output
    ELSE SumAxes(sum_axis(output, Head(axes)), Tail(axes))

\* With every axis summed the result is a scalar, which has no
\* mask_corners method.
marginalize(s, over, corners) ==
    LET output == SumAxes(s, SortedReversed(over))
    IN IF output.shape = <<>>
       THEN IF corners THEN Raise("AttributeError")
            ELSE [kind |-> "scalar", val |-> output]
       ELSE Ok(IF corners THEN mask_corners(output) ELSE output)

(***************************************************************************)
(* Inputs of the marginalization specification: the input spectra, the     *)
(* 3x3 spectrum [[0,1,2],[3,4,5],[6,7,8]] and the 2x2x2 spectrum of the    *)
(* values 0..7, both under every mask.                                     *)
(***************************************************************************)
SquareSpectra ==
    {Spectrum(<<3, 3>>, arange(<<3, 3>>), m, FALSE) : m \in [Cells(<<3, 3>>) -> BOOLEAN]}

CubeSpectra ==
    {Spectrum(<<2, 2, 2>>, arange(<<2, 2, 2>>), m, FALSE) :
        m \in [Cells(<<2, 2, 2>>) -> BOOLEAN]}

\* The lists of distinct axes of s
AxisLists(s) ==
    {over \in UNION {[1..k -> 0..(Npop(s) - 1)] : k \in 0..Npop(s)} :
        \A i, j \in 1..Len(over) : i # j => over[i] # over[j]}

InitMarginalize ==
    /\ build \in Builds
    /\ fs \in InputSpectra \cup SquareSpectra \cup CubeSpectra
    /\ call = NoCall
    /\ out = NoResult
    /\ ObjIdle

\* s.marginalize(over, mask_corners)
Marginalize ==
    /\ call.op = "none"
    /\ \E over \in AxisLists(fs) : \E corners \in BOOLEAN :
         /\ call' = [op |-> "marginalize", over |-> over, mask_corners |-> corners]
         /\ out' = marginalize(fs, over, corners)
    /\ UNCHANGED <<build, fs>>
    /\ FsIdle

NextMarginalize == Marginalize

SpecMarginalize == InitMarginalize /\ [][NextMarginalize]_vars

Range(seq) == {seq[i] : i \in 1..Len(seq)}

\* The index tuple c without the axes in S (axes counted from 0).
RECURSIVE DropAxes(_, _)
DropAxes(c, S) ==
    IF c = <<>> THEN <<>>
    ELSE LET k == Len(c)
             rest == DropAxes(SubSeq(c, 1, k - 1), S)
         IN IF (k - 1) \in S THEN rest ELSE Append(rest, c[k])

SummedInto(s, S, c) == {d \in Cells(s.shape) : DropAxes(d, S) = c}

IsCorner(shape, c) == c = FirstCell(shape) \/ c = LastCell(shape)

\* The list of axes is not empty and leaves at least one axis.
ListsSomeAxes == 1 <= Len(call.over) /\ Len(call.over) < Npop(fs)

\* The parts of C10 that do not concern the mask: the listed axes are
\* removed, every cell is the sum of the unmasked input cells along them,
\* and the order of the list does not matter.
MarginalValues ==
    LET S == Range(call.over)
        r == out.val
    IN /\ r.shape = DropAxes(fs.shape, S)
       /\ r.den = fs.den
       /\ \A c \in Cells(r.shape) :
            r.data[c] = SumSet({d \in SummedInto(fs, S, c) : ~fs.mask[d]}, fs.data)
       /\ \A other \in AxisLists(fs) :
            Range(other) = S => marginalize(fs, other, call.mask_corners) = out

\* C10 as stated: marginalize removes the listed axes, every cell is the
\* sum of the unmasked input cells along them, a cell of the result is
\* masked only if every input cell summed into it is masked, and the order
\* of the axes does not matter.
C10_MarginalMaskedOnlyIfAllMasked ==
    (call.op = "marginalize" /\ ListsSomeAxes)
    => /\ out.kind = "ok"
       /\ MarginalValues
       /\ \A c \in Cells(out.val.shape) :
            out.val.mask[c] => \A d \in SummedInto(fs, Range(call.over), c) : fs.mask[d]

\* C10 amended: for a non-empty list of distinct axes that leaves an axis,
\* marginalize removes the listed axes, every cell is the sum of the
\* unmasked input cells along them, and a cell of the result is masked if
\* and only if every input cell summed into it is masked or, with
\* mask_corners true (the default), it is the first or the last cell of the
\* result; the order of the axes does not matter.
C10_MarginalMaskOrCorner ==
    (call.op = "marginalize" /\ ListsSomeAxes)
    => /\ out.kind = "ok"
       /\ MarginalValues
       /\ \A c \in Cells(out.val.shape) :
            out.val.mask[c] <=>
              \/ \A d \in SummedInto(fs, Range(call.over), c) : fs.mask[d]
              \/ call.mask_corners /\ IsCorner(out.val.shape, c)

\* The 3x3 spectrum with its corners masked, marginalized over population 1
\* with the default corner masking: shape 3, the row sums [3, 12, 13] of
\* the unmasked cells, and the two end cells masked again.
C10_Witness ==
    /\ call.op = "marginalize" /\ call.over = <<1>> /\ call.mask_corners
    /\ fs = Spectrum(<<3, 3>>, arange(<<3, 3>>), make_mask_none(<<3, 3>>), TRUE)
    /\ out.kind = "ok"
    /\ out.val.shape = <<3>>
    /\ out.val.data = (<<0>> :> 3) @@ (<<1>> :> 12) @@ (<<2>> :> 13)
    /\ out.val.mask = (<<0>> :> TRUE) @@ (<<1>> :> FALSE) @@ (<<2>> :> TRUE)

(***************************************************************************)
(* Inference.object_func                                                   *)
(***************************************************************************)
out_of_bounds_val == -100000000

\* None, for a bound that is not given
None == <<>>

\* The bound test with a parameter on a bound counted as outside.
OutOfBoundsInclusive(params, lower_bound, upper_bound) ==
    \/ lower_bound # None /\ \E i \in 1..Len(params) : params[i] <= lower_bound[i]
    \/ upper_bound # None /\ \E i \in 1..Len(params) : params[i] >= upper_bound[i]

\* (lower_bound is not None and numpy.any(params < lower_bound)) or
\* (upper_bound is not None and numpy.any(params > upper_bound))
OutOfBounds(params, lower_bound, upper_bound) ==
    \/ lower_bound # None /\ \E i \in 1..Len(params) : params[i] < lower_bound[i]
    \/ upper_bound # None /\ \E i \in 1..Len(params) : params[i] > upper_bound[i]

\* SFS.fold_sfs, the folding of the SFS module
fold_sfs(s, b) == fold(s, b)

\* ll_multinom_per_bin calls optimal_sfs_scaling, a name that the module
\* neither defines nor imports: the call raises NameError before any
\* likelihood is computed.
ll_multinom_per_bin(model, data) == Raise("NameError")

\* ll_multinom sums what ll_multinom_per_bin returns.
ll_multinom(model, data) == ll_multinom_per_bin(model, data)

\* "ll = ll(sfs, data)": the assignments make ll a local name of
\* object_func, not yet bound on this path, so the call raises
\* UnboundLocalError.
local_ll(model, data) == Raise("UnboundLocalError")

\* The report of one evaluation: '%-8i, %-12g, %s' % (counter, ll, param_str)
Report(cnt, ll, params) == [counter |-> cnt, ll |-> ll, params |-> params]

\* One call of object_func with the global counter at cnt; sfs is what
\* model_func returns if it is invoked. The result is the new counter, the
\* call's outcome, whether model_func was invoked and what was printed.
object_func(params, data, sfs, lower_bound, upper_bound, fold_flag, verbose, multinom, cnt, b) ==
    LET cnt1 == cnt + 1
        outside == OutOfBounds(params, lower_bound, upper_bound)
        model == IF fold_flag THEN fold_sfs(sfs, b) ELSE sfs
        folded_data == IF fold_flag THEN fold_sfs(data, b) ELSE data
        ll == IF outside THEN [kind |-> "value", val |-> out_of_bounds_val]
              ELSE IF multinom THEN ll_multinom(model, folded_data)
              ELSE local_ll(model, folded_data)
    IN IF ll.kind = "raise"
       THEN [counter |-> cnt1, ret |-> ll, invoked |-> ~outside, printed |-> <<>>]
       ELSE [counter |-> cnt1,
             ret |-> [kind |-> "return", val |-> -ll.val],
             invoked |-> ~outside,
             printed |-> IF verbose > 0 /\ cnt1 % verbose = 0
                         THEN <<Report(cnt1, ll.val, params)>> ELSE <<>>]

(***************************************************************************)
(* Inputs of the objective: parameter vectors around fixed bounds, a data  *)
(* spectrum of sample size 2 and the spectra model_func may return, which  *)
(* include zero and negative cells.                                        *)
(***************************************************************************)
\* Vectors of two parameters
ParamIndex == {1, 2}

ParamVectors == [ParamIndex -> 0..MaxParam]

LowerBounds == {None, [i \in ParamIndex |-> 1]}

UpperBounds == {None, [i \in ParamIndex |-> MaxParam - 1]}

DataSpectra ==
    {Spectrum(<<3>>, d, make_mask_none(<<3>>), TRUE) : d \in [Cells(<<3>>) -> {MaxVal}]}

ModelOutputs ==
    {Spectrum(<<3>>, d, make_mask_none(<<3>>), FALSE) :
        d \in {[c \in Cells(<<3>>) |-> v] : v \in -1..MaxVal}}

\* The arguments an optimization hands unchanged to every evaluation:
\* args = (data, model_func, pts, lower_bound, upper_bound, fold, verbose,
\* multinom)
Configs ==
    [set : {TRUE}, data : DataSpectra,
     lower_bound : LowerBounds, upper_bound : UpperBounds,
     fold : BOOLEAN, multinom : BOOLEAN, verbose : 0..MaxVerbose]

Init ==
    /\ build \in Builds
    /\ fs = NoSpectrum
    /\ call = NoCall
    /\ out = NoResult
    /\ config \in Configs
    /\ counter = 0
    /\ last = [called |-> FALSE]
    /\ ret = [kind |-> "none"]
    /\ printed = <<>>
    /\ runs = NoRuns
    /\ default_flush_delay = 0

\* object_func(params, data, model_func, pts, lower_bound, upper_bound,
\*             fold, verbose, multinom); model_func returns sfs when it is
\* invoked, which it is for parameters within the bounds only
ObjectFunc ==
    /\ counter < MaxEvals
    /\ \E params \in ParamVectors :
       \E sfs \in IF OutOfBounds(params, config.lower_bound, config.upper_bound)
                  THEN {NoSpectrum} ELSE ModelOutputs :
         LET r == object_func(params, config.data, sfs, config.lower_bound,
                              config.upper_bound, config.fold, config.verbose,
                              config.multinom, counter, build)
         IN /\ counter' = r.counter
            /\ ret' = r.ret
            /\ printed' = r.printed
            /\ last' = [called |-> TRUE, params |-> params, invoked |-> r.invoked,
                        sfs |-> sfs]
    /\ UNCHANGED <<build, fs, call, out, config, runs, default_flush_delay>>

Next == ObjectFunc

Spec == Init /\ [][Next]_vars

\* A parameter strictly below its lower bound or strictly above its upper
\* bound, for the bounds that are given.
StrictlyOutside ==
    \E i \in ParamIndex :
        \/ config.lower_bound # None /\ last.params[i] < config.lower_bound[i]
        \/ config.upper_bound # None /\ last.params[i] > config.upper_bound[i]

Penalty == [kind |-> "return", val |-> -out_of_bounds_val]

\* C1: a call with a parameter strictly outside a given bound returns the
\* penalty 1e8 without invoking model_func, whatever fold and multinom are;
\* a parameter on a bound is not outside, so the call invokes model_func.
C1_OutOfBoundsPenalty ==
    last.called =>
       /\ StrictlyOutside => (ret = Penalty /\ ~last.invoked)
       /\ ~StrictlyOutside => last.invoked

C1_Witness ==
    /\ last.called /\ StrictlyOutside
    /\ config.fold /\ ~config.multinom
    /\ config.lower_bound # None /\ config.upper_bound # None
    /\ last.params[1] = config.lower_bound[1]
    /\ last.params[2] > config.upper_bound[2]
    /\ ret = Penalty /\ ~last.invoked

\* C2: a call with every parameter within its bounds completes and returns
\* a number, the negated log-likelihood, with multinom true and with
\* multinom false.
C2_InBoundsReturnsLikelihood ==
    (last.called /\ ~StrictlyOutside) => ret.kind = "return"

\* The model spectrum makes the likelihood undefined: an unmasked cell with
\* a zero or negative model value where the data is nonzero.
LikelihoodUndefined(model, data) ==
    \E c \in Cells(data.shape) :
        ~data.mask[c] /\ ~model.mask[c] /\ model.data[c] <= 0 /\ data.data[c] # 0

\* C3: a call within bounds whose model spectrum makes the likelihood
\* undefined returns the penalty 1e8.
C3_UndefinedLikelihoodPenalty ==
    (last.called /\ ~StrictlyOutside /\ LikelihoodUndefined(last.sfs, config.data))
    => ret = Penalty

(***************************************************************************)
(* Spectrum.to_file and Spectrum.from_file                                 *)
(*                                                                         *)
(* A file is a record [comments, shape, data]: the comment lines, the      *)
(* integers of the shape line and the tokens of the data line in row-major *)
(* order. A token is the text of a number, held as the number it reads     *)
(* back as, or the text 'nan'. A spectrum read from a file carries the     *)
(* field nan, the cells that hold not-a-number (their data is shown as 0). *)
(***************************************************************************)
RECURSIVE Pow10(_)
Pow10(k) == IF k <= 0 THEN 1 ELSE 10 * Pow10(k - 1)

\* The number of decimal digits of a natural number
RECURSIVE Digits(_)
Digits(v) == IF v < 10 THEN 1 ELSE 1 + Digits(v \div 10)

\* '%.<p>g' % v cut off after p significant digits instead of rounded
FormatGTruncated(v, precision) ==
    IF Digits(v) <= precision THEN v
    ELSE LET scale == Pow10(Digits(v) - precision)
         IN (v \div scale) * scale

\* '%.<p>g' % v for a natural number v: v rounded to p significant digits,
\* a tie going to the even digit.
FormatG(v, precision) ==
    IF Digits(v) <= precision THEN v
    ELSE LET scale == Pow10(Digits(v) - precision)
             q == v \div scale
             r == v % scale
             up == 2 * r > scale \/ (2 * r = scale /\ q % 2 = 1)
         IN (IF up THEN q + 1 ELSE q) * scale

NanToken == [tok |-> "nan"]

NumToken(v) == [tok |-> "num", val |-> v]

\* The index tuple at position k (from 0) of the row-major order
RECURSIVE Unravel(_, _)
Unravel(shape, k) ==
    IF shape = <<>> THEN <<>>
    ELSE LET n == Len(shape)
         IN Append(Unravel(SubSeq(shape, 1, n - 1), k \div shape[n]), k % shape[n])

\* The raw data written out, the mask ignored.
filled_unmasked(s) == [c \in Cells(s.shape) |-> NumToken(s.data[c])]

\* self.filled() with the fill value nan: 'nan' in every masked cell
filled(s) ==
    [c \in Cells(s.shape) |-> IF s.mask[c] THEN NanToken ELSE NumToken(s.data[c])]

to_file(s, precision, comment_lines) ==
    LET data == filled(s)
    IN [comments |-> comment_lines,
        shape |-> s.shape,
        data |-> [k \in 1..ProdSeq(s.shape) |->
                    LET x == data[Unravel(s.shape, k - 1)]
                    IN IF x.tok = "nan" THEN x
                       ELSE NumToken(FormatG(x.val, precision))]]

\* numpy.fromfile and reshape, then Spectrum(data, mask_corners=mask_corners)
from_file(f, corners) ==
    LET shape == f.shape
        tok == [c \in Cells(shape) |-> f.data[RowMajor(shape, c) + 1]]
        data == [c \in Cells(shape) |-> IF tok[c].tok = "nan" THEN 0 ELSE tok[c].val]
        s == Spectrum(shape, data, make_mask_none(shape), corners)
    IN [shape |-> s.shape, data |-> s.data, den |-> s.den, mask |-> s.mask,
        nan |-> [c \in Cells(shape) |-> tok[c].tok = "nan"]]

(***************************************************************************)
(* Inputs of the file specification: every mask over ramps of data that    *)
(* start at 0, 12 and 20, written with 1, 2 or 16 digits.                  *)
(***************************************************************************)
FileBases == {0, 12, 20}

Precisions == {1, 2, 16}

CommentLines == {<<>>, <<"demo">>}

FileSpectra ==
    UNION {{Spectrum(sh, [c \in Cells(sh) |-> base + RowMajor(sh, c)], m, FALSE) :
              m \in [Cells(sh) -> BOOLEAN], base \in FileBases}
           : sh \in Shapes}

InitFile ==
    /\ build \in Builds
    /\ fs \in FileSpectra
    /\ call = NoCall
    /\ out = NoResult
    /\ ObjIdle

\* s.to_file(fid, precision, comment_lines)
ToFile ==
    /\ call.op = "none"
    /\ \E precision \in Precisions, comment_lines \in CommentLines :
         /\ call' = [op |-> "to_file", precision |-> precision]
         /\ out' = [kind |-> "file", val |-> to_file(fs, precision, comment_lines)]
    /\ UNCHANGED <<build, fs>>
    /\ FsIdle

\* Spectrum.from_file(fid, mask_corners) on the file just written
FromFile ==
    /\ call.op = "to_file"
    /\ \E corners \in BOOLEAN :
         /\ call' = [op |-> "from_file", precision |-> call.precision,
                     mask_corners |-> corners]
         /\ out' = Ok(from_file(out.val, corners))
    /\ UNCHANGED <<build, fs>>
    /\ FsIdle

NextFile == ToFile \/ FromFile

SpecFile == InitFile /\ [][NextFile]_vars

Abs(x) == IF x < 0 THEN -x ELSE x

\* w is v up to a write precision of p significant digits.
WithinPrecision(w, v, p) ==
    IF Digits(v) <= p THEN w = v
    ELSE 2 * Abs(w - v) <= Pow10(Digits(v) - p)

Corners(shape) == {FirstCell(shape), LastCell(shape)}

\* C11 as stated: after to_file and from_file the spectrum has the shape of
\* s, each corner cell is masked exactly when it was masked in s, and every
\* cell has the value it had in s, up to the write precision.
C11_RoundTripIdentical ==
    (call.op = "from_file" /\ call.mask_corners)
    => /\ out.val.shape = fs.shape
       /\ \A c \in Corners(fs.shape) : out.val.mask[c] <=> fs.mask[c]
       /\ \A c \in Cells(fs.shape) :
            ~out.val.nan[c] /\ WithinPrecision(out.val.data[c], fs.data[c], call.precision)

\* C11 amended: after to_file and from_file the spectrum has the shape of
\* s; every cell unmasked in s has the value it had in s up to the write
\* precision, and every cell masked in s holds nan; the cells masked after
\* reading are the two corner cells when from_file's mask_corners is true
\* (the default) and none when it is false, whatever was masked in s.
C11_RoundTripUnmaskedValues ==
    (call.op = "from_file")
    => /\ out.val.shape = fs.shape
       /\ \A c \in Cells(fs.shape) :
            /\ out.val.nan[c] <=> fs.mask[c]
            /\ ~fs.mask[c] =>
                 WithinPrecision(out.val.data[c], fs.data[c], call.precision)
            /\ out.val.mask[c] <=> (call.mask_corners /\ c \in Corners(fs.shape))

\* A 2-population spectrum whose masked cells are its two corners, written
\* with one digit, so that values are rounded, and read with the default.
C11_Witness ==
    /\ call.op = "from_file" /\ call.mask_corners /\ call.precision = 1
    /\ Npop(fs) = 2
    /\ {c \in Cells(fs.shape) : fs.mask[c]} = Corners(fs.shape)
    /\ \E c \in Cells(fs.shape) : ~fs.mask[c] /\ out.val.data[c] # fs.data[c]
    /\ out.val.mask = fs.mask

(***************************************************************************)
(* Inference.optimize_log                                                  *)
(*                                                                         *)
(* runs[r] is one call of optimize_log: idle, then minimizing (inside      *)
(* scipy.optimize.fmin_bfgs, which evaluates object_func_log as often as   *)
(* it chooses), then returned, or raised when an evaluation raised and the *)
(* exception left optimize_log. counter is the module's global and         *)
(* default_flush_delay is Misc.default_flush_delay, both shared by every   *)
(* run. Calls may overlap; one evaluation is one step.                     *)
(***************************************************************************)
Runs == 1..MaxRuns

FlushDelays == 0..MaxFlushDelay

IdleRun == [pc |-> "idle"]

\* numpy.exp(log_params), in units in which a step of 1 in log space
\* doubles the parameter
RECURSIVE Exp(_)
Exp(x) == IF x <= 0 THEN 1 ELSE 2 * Exp(x - 1)

LogParamVectors == [ParamIndex -> 0..MaxLog]

\* args of optimize_log's call of fmin_bfgs, with fold and multinom at
\* their defaults (fold = False, multinom = True)
OptimizeArgs == {a \in Configs : ~a.fold /\ a.multinom}

\* object_func_log(log_params, *args): object_func(numpy.exp(log_params), *args)
object_func_log(log_params, args, sfs, cnt, b) ==
    object_func([i \in ParamIndex |-> Exp(log_params[i])], args.data, sfs, args.lower_bound, args.upper_bound, args.fold, args.verbose, args.multinom, cnt, b)

InitOptimize ==
    /\ build \in Builds
    /\ fs = NoSpectrum
    /\ call = NoCall
    /\ out = NoResult
    /\ config = NoConfig
    /\ counter = 0
    /\ last = [called |-> FALSE]
    /\ ret = [kind |-> "none"]
    /\ printed = <<>>
    /\ runs = [r \in Runs |-> IdleRun]
    /\ default_flush_delay \in FlushDelays

\* optimize_log up to the call of fmin_bfgs:
\*   old_flush_delay = Misc.default_flush_delay
\*   Misc.default_flush_delay = flush_delay
OptimizeLogBegin(r) ==
    /\ runs[r].pc = "idle"
    /\ \E args \in OptimizeArgs, flush_delay \in FlushDelays :
         /\ runs' = [runs EXCEPT ![r] =
                       [pc |-> "minimizing", args |-> args,
                        flush_delay |-> flush_delay,
                        old_flush_delay |-> default_flush_delay,
                        flush_at_end |-> default_flush_delay,
                        evals |-> 0, reported |-> FALSE, report_counter |-> 0]]
         /\ default_flush_delay' = flush_delay
    /\ UNCHANGED <<build, fs, call, out, config, counter, last, ret, printed>>

\* One evaluation of object_func_log by the minimizer of run r. An
\* exception leaves fmin_bfgs and optimize_log at once: the line that
\* restores Misc.default_flush_delay is not reached. flush_at_end is
\* Misc.default_flush_delay as the call leaves it.
Evaluate(r) ==
    /\ runs[r].pc = "minimizing"
    /\ counter < MaxEvals
    /\ \E log_params \in LogParamVectors :
       \E sfs \in IF OutOfBounds([i \in ParamIndex |-> Exp(log_params[i])], runs[r].args.lower_bound, runs[r].args.upper_bound) THEN {NoSpectrum} ELSE ModelOutputs :
         LET e == object_func_log(log_params, runs[r].args, sfs, counter, build)
         IN /\ counter' = e.counter
            /\ ret' = e.ret
            /\ printed' = e.printed
            /\ last' = [called |-> TRUE, run |-> r]
            /\ runs' = [runs EXCEPT ![r] =
                 IF e.ret.kind = "raise"
                 THEN [@ EXCEPT !.pc = "raised", !.evals = @ + 1,
                                !.reported = FALSE,
                                !.flush_at_end = default_flush_delay]
                 ELSE [@ EXCEPT !.evals = @ + 1,
                                !.reported = (e.printed # <<>>),
                                !.report_counter =
                                   IF e.printed # <<>> THEN e.printed[1].counter ELSE 0]]
    /\ UNCHANGED <<build, fs, call, out, config, default_flush_delay>>

\* fmin_bfgs returns, after the evaluation at the start point at least:
\*   Misc.default_flush_delay = old_flush_delay
OptimizeLogReturn(r) ==
    /\ runs[r].pc = "minimizing"
    /\ runs[r].evals >= 1
    /\ default_flush_delay' = runs[r].old_flush_delay
    /\ runs' = [runs EXCEPT ![r] = [@ EXCEPT !.pc = "returned", !.flush_at_end = runs[r].old_flush_delay]]
    /\ UNCHANGED <<build, fs, call, out, config, counter, last, ret, printed>>

NextOptimize ==
    \E r \in Runs : OptimizeLogBegin(r) \/ Evaluate(r) \/ OptimizeLogReturn(r)

SpecOptimize == InitOptimize /\ [][NextOptimize]_vars

\* The run whose evaluation was the last step has just completed an
\* evaluation that returned.
JustEvaluated(r) ==
    /\ last.called /\ last.run = r
    /\ runs[r].pc = "minimizing" /\ runs[r].evals >= 1
    /\ ret.kind = "return"

\* C12: within a run with progress interval K > 0 a report is emitted on
\* exactly the K-th, 2K-th, ... evaluations of that run and carries that
\* run's own evaluation count, whatever other runs evaluated; with K = 0
\* no report is emitted.
C12_ReportsCountPerRun ==
    \A r \in Runs :
       JustEvaluated(r) =>
          LET K == runs[r].args.verbose
              n == runs[r].evals
          IN /\ runs[r].reported <=> (K > 0 /\ n % K = 0)
             /\ runs[r].reported => runs[r].report_counter = n

\* C13: when a call of optimize_log has ended, by a return or by an error
\* raised during the minimization, it has left Misc.default_flush_delay at
\* the value it had immediately before the call.
C13_FlushDelayRestored ==
    \A r \in Runs :
       runs[r].pc \in {"returned", "raised"}
       => runs[r].flush_at_end = runs[r].old_flush_delay

====
